---- MODULE Spec2Model ----
(***************************************************************************)
(* A model of the message-processing and session-continuity core of the   *)
(* Discord + Telegram relay (src/src/relay.ts and the memory module).     *)
(*                                                                         *)
(* The module holds several specifications over one set of variables:     *)
(*   SpecLock     the startup and the singleton process guard (bot.lock)   *)
(*                of several relay processes sharing a working directory;  *)
(*   SpecTurn     one relay process: loadSession, the turns dispatched by  *)
(*                the adapters into processMessage, callClaude, and        *)
(*                saveSession's file write, with crashes and restarts;     *)
(*   SpecTurnLive SpecTurn with the fairness of the event loop;            *)
(*   SpecMcp      getMcpClient and the shared gateway connection;          *)
(*   SpecIntents  processMemoryIntents over replies built of tokens.       *)
(* Each specification leaves the variables of the others at their initial *)
(* values.                                                                 *)
(***************************************************************************)
EXTENDS Integers, Sequences, FiniteSets, TLC

VARIABLES
    \* ---- singleton process guard (relay.ts 89-142)
    lockFile,       \* bot.lock: [exists, text]
    stage,          \* per process: where its top-level script stands
    existingLock,   \* per process: acquireLock's local existingLock
    acquired,       \* per process: acquireLock returned true in this life
    sigPending,     \* per process: a SIGINT/SIGTERM handler awaits releaseLock
    mcpReady,       \* per process: the startup test of the gateway (line 146)
    adapters,       \* per process: start() has started the platform adapters
    lastExit,       \* per process: how its last life ended: [how, code, held]
    \* ---- one relay process: session state and turns (relay.ts 65-83, 194-285)
    up,             \* the relay process is running
    sessionFile,    \* session.json: [k, v]
    session,        \* the module variable `session` (line 83)
    tpc,            \* per turn: the await at which the turn stands
    origin,         \* per turn: the adapter that dispatched it
    resumeArg,      \* per turn: the id passed with --resume (0: none)
    raw,            \* per turn: what callClaude returned
    marker,         \* per turn: exit 0 and the output held a "Session ID:" marker
    wstage,         \* per turn: progress of saveSession's writeFile
    wcontent,       \* per turn: the text saveSession handed to writeFile
    lastReported,   \* the turn whose invocation was the last to report an id
    latestId,       \* the id last reported in this run, else the id loaded
    \* ---- the shared gateway connection (memory module, part_001 111-139)
    mcpClient,          \* the module variable mcpClient (0: null)
    mcpClientPromise,   \* the module variable mcpClientPromise
    connState,          \* per Client object created: state of its connect()
    cstate,             \* per caller of getMcpClient: where its await stands
    holder,             \* per caller: the Client object it was handed (0: none)
    handedOut,          \* the Client objects ever handed to a caller
    \* ---- processMemoryIntents (memory module, part_001 149-252)
    rawKind,        \* which return of callClaude produced the text
    parts,          \* the segments the agent's reply is built of
    response,       \* the argument of processMemoryIntents
    ipc,            \* "called", "loop" (inside the for loops) or "returned"
    todo,           \* the matches the loops have still to handle, in order
    clean,          \* the local variable clean
    calls,          \* the client.callTool invocations made, in order
    rejected,       \* an `await getMcpClient()` rejected during this call
    dispatched,     \* the kinds of the directives handed to the gateway layer
    intentReply     \* the value processMemoryIntents returned

lockVars == <<lockFile, stage, existingLock, acquired, sigPending, mcpReady,
              adapters, lastExit>>

turnVars == <<up, sessionFile, session, tpc, origin, resumeArg, raw, marker,
              wstage, wcontent, lastReported, latestId>>

mcpVars == <<mcpClient, mcpClientPromise, connState, cstate, holder, handedOut>>

intentVars == <<rawKind, parts, response, ipc, todo, clean, calls, rejected, dispatched,
                intentReply>>

vars == <<lockVars, turnVars, mcpVars, intentVars>>

(***************************************************************************)
(* Bounds.                                                                 *)
(***************************************************************************)
NumProcs == 2
FirstPid == 9
NumTurns == 2
NumCallers == 3
MaxClients == 2
MaxSegs == 3

(***************************************************************************)
(* Text helpers: process.pid.toString() and parseInt(existingLock).        *)
(* A text is a sequence of characters; the lock file holds decimal digits. *)
(***************************************************************************)
NaN == -1

DigitChars == <<"0", "1", "2", "3", "4", "5", "6", "7", "8", "9">>

DigitValue(c) == (CHOOSE i \in 1..10 : DigitChars[i] = c) - 1

IsDigit(c) == \E i \in 1..10 : DigitChars[i] = c

RECURSIVE PidToString(_)
PidToString(n) ==
    IF n < 10 THEN <<DigitChars[n + 1]>>
    ELSE Append(PidToString(n \div 10), DigitChars[(n % 10) + 1])

RECURSIVE ParseDigits(_, _, _)
ParseDigits(text, i, acc) ==
    IF i > Len(text) \/ ~IsDigit(text[i]) THEN acc
    ELSE ParseDigits(text, i + 1, (IF acc = NaN THEN 0 ELSE acc * 10) + DigitValue(text[i]))

ParseInt(text) == ParseDigits(text, 1, NaN)

(***************************************************************************)
(* The lock file and the processes.                                        *)
(***************************************************************************)
Procs == FirstPid..(FirstPid + NumProcs - 1)

NoFile == [exists |-> FALSE, text |-> <<>>]

FileOf(text) == [exists |-> TRUE, text |-> text]

\* process.kill(pid, 0) returns normally: a process with that id exists.
Alive(pid) == pid \in Procs /\ stage[pid] # "off"

\* `if (existingLock)`: null and the empty string are falsy.
Truthy(f) == f.exists /\ f.text # <<>>

\* readFile(LOCK_FILE, "utf-8").catch(() => null)
ReadLock == lockFile

\* The record names a live process: lines 95-100 return false.
NamesLive(f) == Truthy(f) /\ Alive(ParseInt(f.text))

\* No life of the process has ended yet, or it runs again.
NoExit == [how |-> "none", code |-> 0, held |-> FALSE]

InitLock ==
    /\ lockFile = NoFile
    /\ stage = [p \in Procs |-> "off"]
    /\ existingLock = [p \in Procs |-> NoFile]
    /\ acquired = [p \in Procs |-> FALSE]
    /\ sigPending = [p \in Procs |-> FALSE]
    /\ mcpReady = [p \in Procs |-> "untested"]
    /\ adapters = [p \in Procs |-> FALSE]
    /\ lastExit = [p \in Procs |-> NoExit]

\* A process without an "exit" handler: the file stays as it is.
ExitHandlerMissing == lockFile

\* The "exit" handler (118-120): unlinkSync(LOCK_FILE), whoever owns it.
ExitHandler == NoFile

\* The process is gone: its locals and handlers with it.
Gone(p, how, code) ==
    /\ stage' = [stage EXCEPT ![p] = "off"]
    /\ lastExit' = [lastExit EXCEPT ![p] =
                       [how |-> how, code |-> code, held |-> acquired[p]]]
    /\ acquired' = [acquired EXCEPT ![p] = FALSE]
    /\ sigPending' = [sigPending EXCEPT ![p] = FALSE]
    /\ existingLock' = [existingLock EXCEPT ![p] = NoFile]
    /\ mcpReady' = [mcpReady EXCEPT ![p] = "untested"]
    /\ adapters' = [adapters EXCEPT ![p] = FALSE]

\* process.exit(code): the exit handler runs, the process is gone.
ProcessExit(p, code) ==
    /\ lockFile' = ExitHandler
    /\ Gone(p, "exit", code)

\* A process starts and reaches the check of lines 128-132.
StartProcess(p, configured) ==
    /\ stage[p] = "off"
    /\ stage' = [stage EXCEPT ![p] = IF configured THEN "read" ELSE "noconfig"]
    /\ lastExit' = [lastExit EXCEPT ![p] = NoExit]
    /\ UNCHANGED <<lockFile, existingLock, acquired, sigPending, mcpReady, adapters>>

\* A startup that goes on without a platform token.
ConfigExitSkipped(p) ==
    /\ stage[p] = "noconfig"
    /\ stage' = [stage EXCEPT ![p] = "read"]
    /\ UNCHANGED <<lockFile, existingLock, acquired, sigPending, mcpReady,
                   adapters, lastExit>>

\* Lines 129-132: no platform token is set, process.exit(1).
ConfigExit(p) ==
    /\ stage[p] = "noconfig"
    /\ ProcessExit(p, 1)

\* acquireLock, line 93: the read of the lock record.
AcquireRead(p) ==
    /\ stage[p] = "read"
    /\ existingLock' = [existingLock EXCEPT ![p] = ReadLock]
    /\ stage' = [stage EXCEPT ![p] = "probe"]
    /\ UNCHANGED <<lockFile, acquired, sigPending, mcpReady, adapters, lastExit>>

\* A variant of the probe without stale-lock takeover: any record blocks.
AcquireProbeNoTakeover(p) ==
    /\ stage[p] = "probe"
    /\ stage' = [stage EXCEPT ![p] =
                    IF Truthy(existingLock[p]) THEN "lockfail" ELSE "write"]
    /\ UNCHANGED <<lockFile, existingLock, acquired, sigPending, mcpReady,
                   adapters, lastExit>>

\* acquireLock, lines 95-104: the liveness probe of the recorded owner.
AcquireProbe(p) ==
    /\ stage[p] = "probe"
    /\ stage' = [stage EXCEPT ![p] =
                    IF NamesLive(existingLock[p]) THEN "lockfail" ELSE "write"]
    /\ UNCHANGED <<lockFile, existingLock, acquired, sigPending, mcpReady,
                   adapters, lastExit>>

\* acquireLock, lines 106-111: the write of the own pid; a failed write is
\* caught and acquireLock returns false.
AcquireWrite(p, writeOk) ==
    /\ stage[p] = "write"
    /\ IF writeOk
       THEN /\ lockFile' = FileOf(PidToString(p))
            /\ stage' = [stage EXCEPT ![p] = "running"]
            /\ acquired' = [acquired EXCEPT ![p] = TRUE]
       ELSE /\ stage' = [stage EXCEPT ![p] = "lockfail"]
            /\ UNCHANGED <<lockFile, acquired>>
    /\ UNCHANGED <<existingLock, sigPending, mcpReady, adapters, lastExit>>

\* Lines 139-142: acquireLock returned false, process.exit(1).
LockFailedExit(p) ==
    /\ stage[p] = "lockfail"
    /\ ProcessExit(p, 1)

\* Lines 144-149: testMcpConnection (part_001 350-366) settles; when the
\* gateway is not reachable a warning is printed and startup goes on.
TestMcp(p, reachable) ==
    /\ stage[p] = "running"
    /\ mcpReady[p] = "untested"
    /\ mcpReady' = [mcpReady EXCEPT ![p] =
                       IF reachable THEN "ready" ELSE "unreachable"]
    /\ UNCHANGED <<lockFile, stage, existingLock, acquired, sigPending,
                   adapters, lastExit>>

\* Lines 419-452: start() starts the Telegram bot and logs in to Discord.
StartAdapters(p) ==
    /\ stage[p] = "running"
    /\ mcpReady[p] # "untested"
    /\ ~adapters[p]
    /\ adapters' = [adapters EXCEPT ![p] = TRUE]
    /\ UNCHANGED <<lockFile, stage, existingLock, acquired, sigPending,
                   mcpReady, lastExit>>

\* The relay ends by itself (an error nothing catches, as the throw of a
\* turn in the Discord handler): the "exit" handler of 118-120 runs.
RelayExit(p) ==
    /\ stage[p] = "running"
    /\ adapters[p]
    /\ ProcessExit(p, 1)

\* Lines 121-122: SIGINT or SIGTERM arrives; the handler calls releaseLock.
Signal(p) ==
    /\ stage[p] # "off"
    /\ ~sigPending[p]
    /\ lockFile' = NoFile
    /\ sigPending' = [sigPending EXCEPT ![p] = TRUE]
    /\ UNCHANGED <<stage, existingLock, acquired, mcpReady, adapters, lastExit>>

\* Lines 121-122: releaseLock resolved, process.exit(0).
SignalExit(p) ==
    /\ stage[p] # "off"
    /\ sigPending[p]
    /\ ProcessExit(p, 0)

\* The process is killed (SIGKILL, power loss): no handler runs.
Crash(p) ==
    /\ stage[p] # "off"
    /\ Gone(p, "killed", 1)
    /\ UNCHANGED lockFile

(***************************************************************************)
(* Session state (relay.ts 65-83).  A JavaScript value is                  *)
(* [t, sid, la]: t is "null", "prim" (a number, string or boolean) or      *)
(* "object"; sid is the sessionId (0: null or undefined), la the           *)
(* lastActivity time: 0 for a time before the first turn, t for the time   *)
(* at which turn t handled its marker.  A file is [k, v]: k is "absent",   *)
(* "unreadable", "empty" (zero bytes), "garbage" (bytes that are not JSON) *)
(* or "json" (the JSON text of v).                                         *)
(***************************************************************************)
Turns == 1..NumTurns

\* The id a session record left by an earlier run holds.
PriorSid == NumTurns + 1

JsNull == [t |-> "null", sid |-> 0, la |-> 0]

JsPrim == [t |-> "prim", sid |-> 0, la |-> 0]

JsObject(sid, la) == [t |-> "object", sid |-> sid, la |-> la]

File(k, v) == [k |-> k, v |-> v]

AbsentFile == File("absent", JsNull)

EmptyFile == File("empty", JsNull)

\* JSON.stringify(state, null, 2)
JsonStringify(v) == File("json", v)

\* loadSession (70-77): readFile and JSON.parse, whose result is returned
\* as it is; any throw gives a fresh state.
LoadSession(f) ==
    IF f.k = "json" THEN f.v ELSE JsObject(0, 0)

\* What session.json may hold when the relay first starts.
InitialSessionFiles ==
    { AbsentFile,
      File("unreadable", JsNull),
      File("garbage", JsNull),
      JsonStringify(JsNull),
      JsonStringify(JsPrim),
      JsonStringify(JsObject(0, 0)),
      JsonStringify(JsObject(PriorSid, 0)) }

InFlight == {"ctx", "claude", "save", "intents"}

InitTurnVars ==
    /\ up = FALSE
    /\ session = JsNull
    /\ tpc = [t \in Turns |-> "idle"]
    /\ origin = [t \in Turns |-> "none"]
    /\ resumeArg = [t \in Turns |-> 0]
    /\ raw = [t \in Turns |-> "none"]
    /\ marker = [t \in Turns |-> FALSE]
    /\ wstage = [t \in Turns |-> "none"]
    /\ wcontent = [t \in Turns |-> AbsentFile]
    /\ lastReported = 0
    /\ latestId = 0

\* Line 83: the process starts and loads the session.
Boot ==
    /\ ~up
    /\ up' = TRUE
    /\ session' = LoadSession(sessionFile)
    /\ latestId' = session'.sid
    /\ UNCHANGED <<sessionFile, tpc, origin, resumeArg, raw, marker, wstage,
                   wcontent, lastReported>>

\* The process is killed: its turns and pending writes are gone, the file
\* stays as the last completed system call left it.
CrashRelay ==
    /\ up
    /\ up' = FALSE
    /\ session' = JsNull
    /\ tpc' = [t \in Turns |-> IF tpc[t] \in InFlight THEN "killed" ELSE tpc[t]]
    /\ origin' = [t \in Turns |-> "none"]
    /\ resumeArg' = [t \in Turns |-> 0]
    /\ raw' = [t \in Turns |-> IF tpc[t] \in InFlight THEN "none" ELSE raw[t]]
    /\ marker' = [t \in Turns |-> IF tpc[t] \in InFlight THEN FALSE ELSE marker[t]]
    /\ wstage' = [t \in Turns |-> "none"]
    /\ wcontent' = [t \in Turns |-> AbsentFile]
    /\ latestId' = 0
    /\ UNCHANGED <<sessionFile, lastReported>>

\* The adapter's handler may run now.  discord.js emits messageCreate
\* without awaiting the handler; grammY's polling loop awaits the handler
\* of one update before it dispatches the next.
MayDispatch(o) ==
    o = "telegram" =>
        \A u \in Turns : ~(origin[u] = "telegram" /\ tpc[u] \in InFlight)

\* Handlers 194-214 and 346-353 call processMessage, which starts the two
\* context fetches (273-276).
Receive(t, o) ==
    /\ up
    /\ tpc[t] = "idle"
    /\ MayDispatch(o)
    /\ tpc' = [tpc EXCEPT ![t] = "ctx"]
    /\ origin' = [origin EXCEPT ![t] = o]
    /\ UNCHANGED <<up, sessionFile, session, resumeArg, raw, marker, wstage,
                   wcontent, lastReported, latestId>>

\* Lines 273-279 and 225-245: both fetches settle (a failed one yields ""),
\* the prompt is built and callClaude runs up to its first await.  Reading
\* session.sessionId of null throws outside the try block; a spawn that
\* throws is caught and gives the fixed error text.
GatherAndInvoke(t, ctxOk, spawnOk) ==
    /\ up
    /\ tpc[t] = "ctx"
    /\ ctxOk \in BOOLEAN
    /\ IF session.t = "null"
       THEN /\ tpc' = [tpc EXCEPT ![t] = "threw"]
            /\ UNCHANGED <<resumeArg, raw>>
       ELSE /\ resumeArg' = [resumeArg EXCEPT ![t] = session.sid]
            /\ IF spawnOk
               THEN /\ tpc' = [tpc EXCEPT ![t] = "claude"]
                    /\ UNCHANGED raw
               ELSE /\ tpc' = [tpc EXCEPT ![t] = "intents"]
                    /\ raw' = [raw EXCEPT ![t] = "spawnError"]
    /\ UNCHANGED <<up, sessionFile, session, origin, marker, wstage, wcontent,
                   lastReported, latestId>>

\* The text on the subprocess's stdout, as tokens [c, id]: "S" is the
\* words `Session ID: `, "s" the same words in another case, "h" a run of
\* characters of [a-f0-9-] (id numbers the run), "x" a letter outside a-f,
\* " " a blank.
Tok(c) == [c |-> c, id |-> 0]

IdTok(n) == [c |-> "h", id |-> n]

\* How the subprocess of a turn may end: exit 0 with its session id on a
\* marker line, exit 0 with plain text, exit 0 with `session id: `
\* followed by no character of the class, a non-zero exit with text on
\* stderr and a marker line on stdout, a non-zero exit with empty stderr.
ExitKinds == {"marker", "plain", "nearmiss", "nonzero", "silent"}

\* proc.exited, line 245.
ExitCode(res) == IF res \in {"nonzero", "silent"} THEN 1 ELSE 0

\* new Response(proc.stdout).text(), line 243; the invocation of turn t
\* runs the session with id t.
OutputOf(t, res) ==
    CASE res \in {"marker", "nonzero"} -> <<Tok("x"), Tok(" "), Tok("S"), IdTok(t)>>
      [] res = "nearmiss" -> <<Tok("s"), Tok("x")>>
      [] OTHER -> <<Tok("x")>>

\* output.match(/Session ID: ([a-f0-9-]+)/i), line 253: the first place
\* where the words, in any case, are followed by a character of the class;
\* the group is the longest run of such characters (0: no match).
RECURSIVE SessionMatch(_, _)
SessionMatch(out, i) ==
    IF i + 1 > Len(out) THEN 0
    ELSE IF out[i].c \in {"S", "s"} /\ out[i + 1].c = "h" THEN out[i + 1].id
    ELSE SessionMatch(out, i + 1)

\* A callClaude that looks for the marker before it looks at the exit code.
ClaudeExitMatchFirst(t, res) ==
    /\ up
    /\ tpc[t] = "claude"
    /\ LET sid == SessionMatch(OutputOf(t, res), 1)
       IN  /\ marker' = [marker EXCEPT ![t] = (sid # 0 /\ ExitCode(res) = 0)]
           /\ lastReported' = IF sid # 0 /\ ExitCode(res) = 0 THEN t ELSE lastReported
           /\ latestId' = IF sid # 0 /\ ExitCode(res) = 0 THEN sid ELSE latestId
           /\ session' = IF sid # 0 /\ session.t = "object"
                         THEN JsObject(sid, t) ELSE session
           /\ IF ExitCode(res) # 0
              THEN /\ raw' = [raw EXCEPT ![t] =
                                 IF res = "silent" THEN "exitCode" ELSE "exitStderr"]
                   /\ tpc' = [tpc EXCEPT ![t] = "intents"]
                   /\ UNCHANGED <<wstage, wcontent>>
              ELSE IF sid = 0
              THEN /\ raw' = [raw EXCEPT ![t] = "output"]
                   /\ tpc' = [tpc EXCEPT ![t] = "intents"]
                   /\ UNCHANGED <<wstage, wcontent>>
              ELSE IF session.t # "object"
              THEN /\ raw' = [raw EXCEPT ![t] = "spawnError"]
                   /\ tpc' = [tpc EXCEPT ![t] = "intents"]
                   /\ UNCHANGED <<wstage, wcontent>>
              ELSE /\ wcontent' = [wcontent EXCEPT ![t] = JsonStringify(session')]
                   /\ wstage' = [wstage EXCEPT ![t] = "pending"]
                   /\ tpc' = [tpc EXCEPT ![t] = "save"]
                   /\ UNCHANGED raw
    /\ UNCHANGED <<up, sessionFile, origin, resumeArg>>

\* Lines 245-260: the subprocess exits.  A non-zero code gives the error
\* text, made of stderr or, when stderr is empty, of the exit code, before
\* the output is looked at; exit 0 with a match assigns session.sessionId
\* and lastActivity and starts saveSession (assigning to a primitive
\* throws in a module, which the catch turns into the fixed error text);
\* exit 0 without a match returns the output.
ClaudeExit(t, res) ==
    /\ up
    /\ tpc[t] = "claude"
    /\ IF ExitCode(res) # 0
       THEN /\ raw' = [raw EXCEPT ![t] =
                          IF res = "silent" THEN "exitCode" ELSE "exitStderr"]
            /\ tpc' = [tpc EXCEPT ![t] = "intents"]
            /\ UNCHANGED <<session, marker, wstage, wcontent, lastReported,
                           latestId>>
       ELSE LET sid == SessionMatch(OutputOf(t, res), 1)
            IN  /\ marker' = [marker EXCEPT ![t] = (sid # 0)]
                /\ lastReported' = IF sid # 0 THEN t ELSE lastReported
                /\ latestId' = IF sid # 0 THEN sid ELSE latestId
                /\ IF sid = 0
                   THEN /\ raw' = [raw EXCEPT ![t] = "output"]
                        /\ tpc' = [tpc EXCEPT ![t] = "intents"]
                        /\ UNCHANGED <<session, wstage, wcontent>>
                   ELSE IF session.t # "object"
                   THEN /\ raw' = [raw EXCEPT ![t] = "spawnError"]
                        /\ tpc' = [tpc EXCEPT ![t] = "intents"]
                        /\ UNCHANGED <<session, wstage, wcontent>>
                   ELSE /\ session' = JsObject(sid, t)
                        /\ wcontent' = [wcontent EXCEPT ![t] = JsonStringify(session')]
                        /\ wstage' = [wstage EXCEPT ![t] = "pending"]
                        /\ tpc' = [tpc EXCEPT ![t] = "save"]
                        /\ UNCHANGED raw
    /\ UNCHANGED <<up, sessionFile, origin, resumeArg>>

\* saveSession (79-81), writeFile opening the file with truncation; a
\* failed open rejects, and callClaude's catch returns the fixed error text.
WriteOpen(t, ok) ==
    /\ up
    /\ wstage[t] = "pending"
    /\ IF ok
       THEN /\ sessionFile' = EmptyFile
            /\ wstage' = [wstage EXCEPT ![t] = "opened"]
            /\ UNCHANGED <<raw, tpc, wcontent>>
       ELSE /\ wstage' = [wstage EXCEPT ![t] = "none"]
            /\ wcontent' = [wcontent EXCEPT ![t] = AbsentFile]
            /\ raw' = [raw EXCEPT ![t] = "spawnError"]
            /\ tpc' = [tpc EXCEPT ![t] = "intents"]
            /\ UNCHANGED sessionFile
    /\ UNCHANGED <<up, session, origin, resumeArg, marker, lastReported,
                   latestId>>

\* saveSession (79-81), writeFile writing the text it was handed.
WriteData(t) ==
    /\ up
    /\ wstage[t] = "opened"
    /\ sessionFile' = wcontent[t]
    /\ wstage' = [wstage EXCEPT ![t] = "written"]
    /\ wcontent' = [wcontent EXCEPT ![t] = AbsentFile]
    /\ UNCHANGED <<up, session, tpc, origin, resumeArg, raw, marker,
                   lastReported, latestId>>

\* Lines 257-260 and 279-282: the write resolved, callClaude returns the
\* trimmed output and processMessage starts processMemoryIntents.
SaveReturn(t) ==
    /\ up
    /\ tpc[t] = "save"
    /\ wstage[t] = "written"
    /\ wstage' = [wstage EXCEPT ![t] = "none"]
    /\ raw' = [raw EXCEPT ![t] = "output"]
    /\ tpc' = [tpc EXCEPT ![t] = "intents"]
    /\ UNCHANGED <<up, sessionFile, session, origin, resumeArg, marker,
                   wcontent, lastReported, latestId>>

\* Lines 282-284: processMemoryIntents settles (gateway failures are caught
\* inside it) and processMessage returns the reply to the handler.
DispatchIntents(t) ==
    /\ up
    /\ tpc[t] = "intents"
    /\ tpc' = [tpc EXCEPT ![t] = "done"]
    /\ origin' = [origin EXCEPT ![t] = "none"]
    /\ resumeArg' = [resumeArg EXCEPT ![t] = 0]
    /\ UNCHANGED <<up, sessionFile, session, raw, marker, wstage, wcontent,
                   lastReported, latestId>>

(***************************************************************************)
(* The shared gateway connection (part_001 111-139).  Client objects are   *)
(* numbered in creation order; connState[i] is the state of the connect()  *)
(* started on object i.  A caller is one of the functions that await       *)
(* getMcpClient (saveMemory, markGoalComplete, getMemoryContext,           *)
(* getRelevantContext, testMcpConnection).                                 *)
(***************************************************************************)
Callers == 1..NumCallers

InitMcp ==
    /\ mcpClient = 0
    /\ mcpClientPromise = "null"
    /\ connState = <<>>
    /\ cstate = [c \in Callers |-> "idle"]
    /\ holder = [c \in Callers |-> 0]
    /\ handedOut = {}

\* Lines 122-136 up to the await: the async closure builds the transport
\* and the Client, assigns mcpClient and starts connect(); a constructor
\* that throws (new URL, the transport, the Client) rejects the promise
\* with mcpClient still null.
CreateClient(c, ctorOk) ==
    IF ctorOk
    THEN /\ mcpClient' = Len(connState) + 1
         /\ connState' = Append(connState, "connecting")
         /\ mcpClientPromise' = "pending"
         /\ cstate' = [cstate EXCEPT ![c] = "awaiting"]
         /\ UNCHANGED <<holder, handedOut>>
    ELSE /\ mcpClientPromise' = "rejected"
         /\ cstate' = [cstate EXCEPT ![c] = "rejected"]
         /\ UNCHANGED <<mcpClient, connState, holder, handedOut>>

\* A getMcpClient without the two cache checks: every call connects anew.
GetMcpClientNoCache(c, ctorOk) ==
    /\ cstate[c] = "idle"
    /\ Len(connState) < MaxClients
    /\ CreateClient(c, ctorOk)

\* getMcpClient (114-139): the cached client, else the cached promise,
\* else a new connection attempt.
GetMcpClient(c, ctorOk) ==
    /\ cstate[c] = "idle"
    /\ IF mcpClient # 0
       THEN /\ cstate' = [cstate EXCEPT ![c] = "has"]
            /\ holder' = [holder EXCEPT ![c] = mcpClient]
            /\ handedOut' = handedOut \cup {mcpClient}
            /\ UNCHANGED <<mcpClient, mcpClientPromise, connState>>
       ELSE IF mcpClientPromise # "null"
       THEN /\ cstate' = [cstate EXCEPT ![c] =
                            IF mcpClientPromise = "rejected" THEN "rejected"
                            ELSE "awaiting"]
            /\ UNCHANGED <<mcpClient, mcpClientPromise, connState, holder, handedOut>>
       ELSE CreateClient(c, ctorOk)

\* Line 132: connect() of Client object i settles; the closure returns
\* mcpClient (135) or the promise rejects.
ConnectSettles(i, ok) ==
    /\ i \in 1..Len(connState)
    /\ connState[i] = "connecting"
    /\ connState' = [connState EXCEPT ![i] = IF ok THEN "connected" ELSE "failed"]
    /\ mcpClientPromise' = IF i = Len(connState)
                           THEN (IF ok THEN "fulfilled" ELSE "rejected")
                           ELSE mcpClientPromise
    /\ UNCHANGED <<mcpClient, cstate, holder, handedOut>>

\* The caller's `await getMcpClient()` resumes once the promise settled.
AwaitResumes(c) ==
    /\ cstate[c] = "awaiting"
    /\ mcpClientPromise \in {"fulfilled", "rejected"}
    /\ IF mcpClientPromise = "fulfilled"
       THEN /\ cstate' = [cstate EXCEPT ![c] = "has"]
            /\ holder' = [holder EXCEPT ![c] = mcpClient]
            /\ handedOut' = handedOut \cup {mcpClient}
       ELSE /\ cstate' = [cstate EXCEPT ![c] = "rejected"]
            /\ UNCHANGED <<holder, handedOut>>
    /\ UNCHANGED <<mcpClient, mcpClientPromise, connState>>

\* The caller issues its gateway operation on the client it was handed
\* (client.callTool at 205, 222, 266, 322, 355).
CallTool(c) ==
    /\ cstate[c] = "has"
    /\ cstate' = [cstate EXCEPT ![c] = "called"]
    /\ UNCHANGED <<mcpClient, mcpClientPromise, connState, holder, handedOut>>

\* The caller finishes (its call settled, or its catch ran on a rejected
\* getMcpClient) and may call getMcpClient again.
CallerReturns(c) ==
    /\ cstate[c] \in {"called", "rejected"}
    /\ cstate' = [cstate EXCEPT ![c] = "idle"]
    /\ holder' = [holder EXCEPT ![c] = 0]
    /\ UNCHANGED <<mcpClient, mcpClientPromise, connState, handedOut>>

(***************************************************************************)
(* processMemoryIntents (part_001 149-192).  A text is a sequence of       *)
(* tokens: "[" and "]", the keywords "R" (REMEMBER:), "G" (GOAL:),         *)
(* "D" (DONE:) and "L" (DEADLINE:) with their lower-case spellings, "|",   *)
(* the whitespace " " and "n" (a line break), and the letters "a", "b".    *)
(***************************************************************************)
IsSpace(c) == c \in {" ", "n"}

\* The i flag of the three expressions: keywords match in either case.
Fold(c) ==
    CASE c = "r" -> "R"
      [] c = "g" -> "G"
      [] c = "d" -> "D"
      [] c = "l" -> "L"
      [] OTHER -> c

At(s, i) == IF i >= 1 /\ i <= Len(s) THEN s[i] ELSE "eof"

\* \s* taken greedily at i: the length of the whitespace run.
RECURSIVE SpaceRun(_, _)
SpaceRun(s, i) ==
    IF IsSpace(At(s, i)) THEN 1 + SpaceRun(s, i + 1) ELSE 0

NoMatch == [end |-> 0, gs |-> 0, ge |-> 0, deadline |-> FALSE]

\* (.+?)\] with the group's last token at e: `.` takes no line break, and
\* the group grows by one token until a "]" follows it.
RECURSIVE LazyClose(_, _, _)
LazyClose(s, gs, e) ==
    IF At(s, e) \in {"eof", "n"} THEN NoMatch
    ELSE IF At(s, e + 1) = "]"
         THEN [end |-> e + 1, gs |-> gs, ge |-> e, deadline |-> FALSE]
         ELSE LazyClose(s, gs, e + 1)

\* \s*(.+?)\] from `from`: \s* first takes all w whitespace tokens and
\* gives them back one at a time while the rest fails.
RECURSIVE SpaceThenLazy(_, _, _)
SpaceThenLazy(s, from, w) ==
    LET m == LazyClose(s, from + w, from + w)
    IN  IF m.end # 0 THEN m
        ELSE IF w = 0 THEN NoMatch
        ELSE SpaceThenLazy(s, from, w - 1)

\* Some token of s[gs..ge] is no whitespace: the group's trim() is not "".
NonBlank(s, gs, ge) == \E i \in gs..ge : ~IsSpace(s[i])

\* (?:\s*\|\s*DEADLINE:\s*(.+?))?\] tried at q, with the optional group.
DeadlineGroup(s, q) ==
    LET bar == q + SpaceRun(s, q)
        kw  == bar + 1 + SpaceRun(s, bar + 1)
    IN  IF At(s, bar) = "|" /\ Fold(At(s, kw)) = "L"
        THEN SpaceThenLazy(s, kw + 1, SpaceRun(s, kw + 1))
        ELSE NoMatch

\* (.+?)(?:...)?\] with the first group's last token at e: at each length
\* the optional group is tried first, then the bare "]".
RECURSIVE GoalClose(_, _, _)
GoalClose(s, gs, e) ==
    IF At(s, e) \in {"eof", "n"} THEN NoMatch
    ELSE LET o == DeadlineGroup(s, e + 1)
         IN  IF o.end # 0
             THEN [end |-> o.end, gs |-> gs, ge |-> e,
                   deadline |-> NonBlank(s, o.gs, o.ge)]
             ELSE IF At(s, e + 1) = "]"
             THEN [end |-> e + 1, gs |-> gs, ge |-> e, deadline |-> FALSE]
             ELSE GoalClose(s, gs, e + 1)

RECURSIVE SpaceThenGoal(_, _, _)
SpaceThenGoal(s, from, w) ==
    LET m == GoalClose(s, from + w, from + w)
    IN  IF m.end # 0 THEN m
        ELSE IF w = 0 THEN NoMatch
        ELSE SpaceThenGoal(s, from, w - 1)

\* One of /\[REMEMBER:\s*(.+?)\]/gi, /\[GOAL:\s*(.+?)(?:...)?\]/gi and
\* /\[DONE:\s*(.+?)\]/gi tried at position i.
MatchAt(s, i, kw) ==
    IF At(s, i) = "[" /\ Fold(At(s, i + 1)) = kw
    THEN IF kw = "G"
         THEN SpaceThenGoal(s, i + 2, SpaceRun(s, i + 2))
         ELSE SpaceThenLazy(s, i + 2, SpaceRun(s, i + 2))
    ELSE NoMatch

\* response.matchAll(expression): the matches from left to right, each
\* search resuming after the previous match.
RECURSIVE MatchAll(_, _, _)
MatchAll(s, i, kw) ==
    IF i > Len(s) THEN <<>>
    ELSE LET m == MatchAt(s, i, kw)
         IN  IF m.end # 0
             THEN <<[kind |-> kw, text |-> SubSeq(s, i, m.end),
                     deadline |-> m.deadline]>> \o MatchAll(s, m.end + 1, kw)
             ELSE MatchAll(s, i + 1, kw)

\* The matches of the three expressions in the order of their place in
\* the text.
RECURSIVE MatchesInTextOrder(_, _)
MatchesInTextOrder(s, i) ==
    IF i > Len(s) THEN <<>>
    ELSE LET kws == {kw \in {"R", "G", "D"} : MatchAt(s, i, kw).end # 0}
         IN  IF kws = {} THEN MatchesInTextOrder(s, i + 1)
             ELSE LET kw == CHOOSE k \in kws : TRUE
                      m  == MatchAt(s, i, kw)
                  IN  <<[kind |-> kw, text |-> SubSeq(s, i, m.end),
                         deadline |-> m.deadline]>>
                      \o MatchesInTextOrder(s, m.end + 1)

\* A dispatcher that handles the directives in text order.
AllMatchesInTextOrder(s) == MatchesInTextOrder(s, 1)

\* The three loops of lines 153, 165 and 180, in that order.
AllMatches(s) == MatchAll(s, 1, "R") \o MatchAll(s, 1, "G") \o MatchAll(s, 1, "D")

\* The first index at which sub occurs in s (0: nowhere).
RECURSIVE IndexFrom(_, _, _)
IndexFrom(s, sub, i) ==
    IF i + Len(sub) - 1 > Len(s) THEN 0
    ELSE IF SubSeq(s, i, i + Len(sub) - 1) = sub THEN i
    ELSE IndexFrom(s, sub, i + 1)

\* A strip that leaves the text as it is.
RemoveNothing(s, sub) == s

\* clean.replace(match[0], ""): the first occurrence is cut out.
RemoveFirst(s, sub) ==
    LET i == IndexFrom(s, sub, 1)
    IN  IF i = 0 THEN s
        ELSE SubSeq(s, 1, i - 1) \o SubSeq(s, i + Len(sub), Len(s))

\* Lines 161, 176 and 188: the matches are cut out one after the other.
RECURSIVE StripAll(_, _)
StripAll(text, ms) ==
    IF ms = <<>> THEN text
    ELSE StripAll(RemoveFirst(text, Head(ms).text), Tail(ms))

\* clean.trim()
RECURSIVE TrimLeft(_)
TrimLeft(s) == IF s # <<>> /\ IsSpace(Head(s)) THEN TrimLeft(Tail(s)) ELSE s

RECURSIVE TrimRight(_)
TrimRight(s) ==
    IF s # <<>> /\ IsSpace(s[Len(s)]) THEN TrimRight(SubSeq(s, 1, Len(s) - 1)) ELSE s

Trim(s) == TrimRight(TrimLeft(s))

\* The text processMemoryIntents returns for the reply s.
ProcessedText(s) == Trim(StripAll(s, AllMatches(s)))

\* The segments a reply is built of: text, whitespace, a line break, the
\* directives in their spellings, and two fragments of a directive.
Segments ==
    << <<"a">>,
       <<" ">>,
       <<"n">>,
       <<"[", "R", " ", "a", "]">>,
       <<"[", "r", "b", "]">>,
       <<"[", "G", " ", "a", "]">>,
       <<"[", "G", " ", "a", " ", "|", " ", "L", " ", "b", "]">>,
       <<"[", "D", " ", "a", "]">>,
       <<"[">>,
       <<"R", "a", "]">> >>

SegIds == 1..Len(Segments)

RECURSIVE Flatten(_)
Flatten(ps) == IF ps = <<>> THEN <<>> ELSE Segments[Head(ps)] \o Flatten(Tail(ps))

Replies == UNION {[1..n -> SegIds] : n \in 0..MaxSegs}

\* The returns of callClaude: the agent's output (line 260), the error
\* text built of a non-empty stderr or of the exit code (line 249), and
\* the fixed text of the catch (line 263).
RawKinds == {"output", "exitStderr", "exitCode", "spawnError"}

\* "E" stands for the prefix `Error:`, "x" for `Claude exited with code N`
\* and "c" for `Could not run Claude CLI`.
ErrorPrefix == <<"E", " ">>

\* The text callClaude returns; ps is the segments of the captured stream
\* (stdout for "output", stderr for "exitStderr").
RawResponse(kind, ps) ==
    CASE kind = "output"     -> Flatten(ps)
      [] kind = "exitStderr" -> ErrorPrefix \o Flatten(ps)
      [] kind = "exitCode"   -> ErrorPrefix \o <<"x">>
      [] kind = "spawnError" -> ErrorPrefix \o <<"c">>

InitIntents ==
    /\ rawKind = "output"
    /\ parts = <<>>
    /\ response = <<>>
    /\ ipc = "idle"
    /\ todo = <<>>
    /\ clean = <<>>
    /\ calls = <<>>
    /\ rejected = FALSE
    /\ dispatched = <<>>
    /\ intentReply = <<>>

\* One gateway operation: [op, ok, res]; res is what a ledger_query gave.
Call(op, ok) == [op |-> op, ok |-> ok, res |-> "-"]

\* The ledger_query of line 222 and its result: "error" (callTool threw),
\* "none" (no items), "malformed" or "item" (a first item with an id).
QueryCall(found) == [op |-> "query", ok |-> found # "error", res |-> found]

\* Line 149-150: processMemoryIntents is called with the agent's reply.
BeginIntents ==
    /\ ipc = "called"
    /\ clean' = response
    /\ todo' = AllMatches(response)
    /\ ipc' = "loop"
    /\ UNCHANGED <<rawKind, parts, response, calls, rejected, dispatched, intentReply>>

\* saveMemory (198-216): getMcpClient, then one ledger_item_create.  out is
\* "ok", "error" (callTool throws) or "noClient" (getMcpClient rejects).
SaveMemory(nature, deadline, out) ==
    IF out = "noClient"
    THEN /\ rejected' = TRUE
         /\ UNCHANGED calls
    ELSE /\ calls' = Append(calls, Call(IF nature = "know" THEN "createKnow"
                                        ELSE IF deadline THEN "createActionDeadline"
                                        ELSE "createAction", out = "ok"))
         /\ UNCHANGED rejected

\* A REMEMBER loop without the try block of lines 155-160: a failure of
\* saveMemory ends the function with the rest of the text as it is.
DispatchRememberUncaught(out) ==
    /\ ipc = "loop"
    /\ todo # <<>>
    /\ Head(todo).kind = "R"
    /\ SaveMemory("know", FALSE, out)
    /\ dispatched' = Append(dispatched, "R")
    /\ clean' = IF out = "ok" THEN RemoveFirst(clean, Head(todo).text) ELSE clean
    /\ todo' = IF out = "ok" THEN Tail(todo) ELSE <<>>
    /\ UNCHANGED <<rawKind, parts, response, ipc, intentReply>>

\* Lines 153-162: one iteration of the REMEMBER loop.
DispatchRemember(out) ==
    /\ ipc = "loop"
    /\ todo # <<>>
    /\ Head(todo).kind = "R"
    /\ SaveMemory("know", FALSE, out)
    /\ dispatched' = Append(dispatched, "R")
    /\ clean' = RemoveFirst(clean, Head(todo).text)
    /\ todo' = Tail(todo)
    /\ UNCHANGED <<rawKind, parts, response, ipc, intentReply>>

\* Lines 165-177: one iteration of the GOAL loop.
DispatchGoal(out) ==
    /\ ipc = "loop"
    /\ todo # <<>>
    /\ Head(todo).kind = "G"
    /\ SaveMemory("action", Head(todo).deadline, out)
    /\ dispatched' = Append(dispatched, "G")
    /\ clean' = RemoveFirst(clean, Head(todo).text)
    /\ todo' = Tail(todo)
    /\ UNCHANGED <<rawKind, parts, response, ipc, intentReply>>

\* A markGoalComplete that updates without looking at the query's result.
MarkGoalCompleteUpdatesAnyway(out, found, updOk) ==
    IF out = "noClient"
    THEN /\ rejected' = TRUE
         /\ UNCHANGED calls
    ELSE /\ calls' =
              IF found = "error" THEN Append(calls, QueryCall(found))
              ELSE calls \o <<QueryCall(found), Call("update", updOk)>>
         /\ UNCHANGED rejected

\* markGoalComplete (218-252): getMcpClient, one ledger_query, and one
\* ledger_item_update when the parsed result has a first item with an id.
\* found is "error" (the query throws), "none", "malformed" or "item".
MarkGoalComplete(out, found, updOk) ==
    IF out = "noClient"
    THEN /\ rejected' = TRUE
         /\ UNCHANGED calls
    ELSE /\ calls' =
              IF found = "item"
              THEN calls \o <<QueryCall(found), Call("update", updOk)>>
              ELSE Append(calls, QueryCall(found))
         /\ UNCHANGED rejected

\* Lines 180-189: one iteration of the DONE loop.
DispatchDone(out, found, updOk) ==
    /\ ipc = "loop"
    /\ todo # <<>>
    /\ Head(todo).kind = "D"
    /\ MarkGoalComplete(out, found, updOk)
    /\ dispatched' = Append(dispatched, "D")
    /\ clean' = RemoveFirst(clean, Head(todo).text)
    /\ todo' = Tail(todo)
    /\ UNCHANGED <<rawKind, parts, response, ipc, intentReply>>

\* Line 191: return clean.trim().
ReturnClean ==
    /\ ipc = "loop"
    /\ todo = <<>>
    /\ intentReply' = Trim(clean)
    /\ ipc' = "returned"
    /\ UNCHANGED <<rawKind, parts, response, todo, clean, calls, rejected, dispatched>>

(***************************************************************************)
(* Specifications.                                                         *)
(***************************************************************************)
InitLockSpec ==
    /\ InitLock
    /\ InitTurnVars
    /\ sessionFile = AbsentFile
    /\ InitMcp
    /\ InitIntents

NextLock ==
    \/ \E p \in Procs, configured \in BOOLEAN :
          StartProcess(p, configured) /\ UNCHANGED <<turnVars, mcpVars, intentVars>>
    \/ \E p \in Procs : ConfigExit(p) /\ UNCHANGED <<turnVars, mcpVars, intentVars>>
    \/ \E p \in Procs : AcquireRead(p) /\ UNCHANGED <<turnVars, mcpVars, intentVars>>
    \/ \E p \in Procs : AcquireProbe(p) /\ UNCHANGED <<turnVars, mcpVars, intentVars>>
    \/ \E p \in Procs, writeOk \in BOOLEAN :
          AcquireWrite(p, writeOk) /\ UNCHANGED <<turnVars, mcpVars, intentVars>>
    \/ \E p \in Procs : LockFailedExit(p) /\ UNCHANGED <<turnVars, mcpVars, intentVars>>
    \/ \E p \in Procs, reachable \in BOOLEAN :
          TestMcp(p, reachable) /\ UNCHANGED <<turnVars, mcpVars, intentVars>>
    \/ \E p \in Procs : StartAdapters(p) /\ UNCHANGED <<turnVars, mcpVars, intentVars>>
    \/ \E p \in Procs : RelayExit(p) /\ UNCHANGED <<turnVars, mcpVars, intentVars>>
    \/ \E p \in Procs : Signal(p) /\ UNCHANGED <<turnVars, mcpVars, intentVars>>
    \/ \E p \in Procs : SignalExit(p) /\ UNCHANGED <<turnVars, mcpVars, intentVars>>
    \/ \E p \in Procs : Crash(p) /\ UNCHANGED <<turnVars, mcpVars, intentVars>>

SpecLock == InitLockSpec /\ [][NextLock]_vars

InitTurn ==
    /\ InitLock
    /\ InitTurnVars
    /\ sessionFile \in InitialSessionFiles
    /\ InitMcp
    /\ InitIntents

NextTurn ==
    \/ Boot /\ UNCHANGED <<lockVars, mcpVars, intentVars>>
    \/ CrashRelay /\ UNCHANGED <<lockVars, mcpVars, intentVars>>
    \/ \E t \in Turns, o \in {"discord", "telegram"} :
          Receive(t, o) /\ UNCHANGED <<lockVars, mcpVars, intentVars>>
    \/ \E t \in Turns, ctxOk \in BOOLEAN, spawnOk \in BOOLEAN :
          GatherAndInvoke(t, ctxOk, spawnOk) /\ UNCHANGED <<lockVars, mcpVars, intentVars>>
    \/ \E t \in Turns, res \in ExitKinds :
          ClaudeExit(t, res) /\ UNCHANGED <<lockVars, mcpVars, intentVars>>
    \/ \E t \in Turns, ok \in BOOLEAN : WriteOpen(t, ok) /\ UNCHANGED <<lockVars, mcpVars, intentVars>>
    \/ \E t \in Turns : WriteData(t) /\ UNCHANGED <<lockVars, mcpVars, intentVars>>
    \/ \E t \in Turns : SaveReturn(t) /\ UNCHANGED <<lockVars, mcpVars, intentVars>>
    \/ \E t \in Turns : DispatchIntents(t) /\ UNCHANGED <<lockVars, mcpVars, intentVars>>

SpecTurn == InitTurn /\ [][NextTurn]_vars

\* The steps of turn t that the relay itself takes once the awaited
\* operation has settled; the exit of the subprocess is not among them,
\* and callClaude (235-245) sets no timer that would stand in for it.
TurnStep(t) ==
    /\ \/ \E ctxOk \in BOOLEAN, spawnOk \in BOOLEAN : GatherAndInvoke(t, ctxOk, spawnOk)
       \/ \E ok \in BOOLEAN : WriteOpen(t, ok)
       \/ WriteData(t)
       \/ SaveReturn(t)
       \/ DispatchIntents(t)
    /\ UNCHANGED <<lockVars, mcpVars, intentVars>>

\* The turns under the scheduling of the event loop: a continuation whose
\* awaited operation has settled is eventually run.
SpecTurnLive == SpecTurn /\ \A t \in Turns : WF_vars(TurnStep(t))

InitMcpSpec ==
    /\ InitLock
    /\ InitTurnVars
    /\ sessionFile = AbsentFile
    /\ InitMcp
    /\ InitIntents

NextMcp ==
    \/ \E c \in Callers, ctorOk \in BOOLEAN :
          GetMcpClient(c, ctorOk) /\ UNCHANGED <<lockVars, turnVars, intentVars>>
    \/ \E i \in 1..MaxClients, ok \in BOOLEAN :
          ConnectSettles(i, ok) /\ UNCHANGED <<lockVars, turnVars, intentVars>>
    \/ \E c \in Callers : AwaitResumes(c) /\ UNCHANGED <<lockVars, turnVars, intentVars>>
    \/ \E c \in Callers : CallTool(c) /\ UNCHANGED <<lockVars, turnVars, intentVars>>
    \/ \E c \in Callers : CallerReturns(c) /\ UNCHANGED <<lockVars, turnVars, intentVars>>

SpecMcp == InitMcpSpec /\ [][NextMcp]_vars

InitIntentsSpec ==
    /\ InitLock
    /\ InitTurnVars
    /\ sessionFile = AbsentFile
    /\ InitMcp
    /\ rawKind \in RawKinds
    /\ parts \in Replies
    /\ rawKind = "exitStderr" => Len(parts) \in 1..(MaxSegs - 1)
    /\ rawKind \in {"exitCode", "spawnError"} => parts = <<>>
    /\ response = RawResponse(rawKind, parts)
    /\ ipc = "called"
    /\ todo = <<>>
    /\ clean = <<>>
    /\ calls = <<>>
    /\ rejected = FALSE
    /\ dispatched = <<>>
    /\ intentReply = <<>>

Outcomes == {"ok", "error", "noClient"}

NextIntents ==
    \/ BeginIntents /\ UNCHANGED <<lockVars, turnVars, mcpVars>>
    \/ \E out \in Outcomes :
          DispatchRemember(out) /\ UNCHANGED <<lockVars, turnVars, mcpVars>>
    \/ \E out \in Outcomes :
          DispatchGoal(out) /\ UNCHANGED <<lockVars, turnVars, mcpVars>>
    \/ \E out \in Outcomes, found \in {"error", "none", "malformed", "item"},
          updOk \in BOOLEAN :
          DispatchDone(out, found, updOk) /\ UNCHANGED <<lockVars, turnVars, mcpVars>>
    \/ ReturnClean /\ UNCHANGED <<lockVars, turnVars, mcpVars>>

SpecIntents == InitIntentsSpec /\ [][NextIntents]_vars

(***************************************************************************)
(* Claims about the singleton process guard, checked under SpecLock.       *)
(***************************************************************************)

\* The processes that are live and past the lock-acquisition step.
PastLock == {p \in Procs : stage[p] # "off" /\ acquired[p]}

\* The record acquireLock read names a process that exists now.
RecordOwnerAlive(p) ==
    /\ existingLock[p].exists
    /\ existingLock[p].text # <<>>
    /\ \E q \in Procs : existingLock[p].text = PidToString(q) /\ stage[q] # "off"

\* The file holds exactly the decimal digits of p's process id.
LockNames(f, p) == f.exists /\ f.text = PidToString(p)

\* C3: under any interleaving of startups, failed startups, shutdowns and
\* crashes of processes sharing the working directory, at most one live
\* process is past the lock-acquisition step at any time.
C3_AtMostOneLiveOwner == Cardinality(PastLock) <= 1

C16_ConfigErrorsFatal ==
    [][\A p \in Procs :
        /\ (stage[p] = "noconfig" /\ stage'[p] # "noconfig") =>
              /\ stage'[p] = "off"
              /\ lastExit'[p].code # 0 \/ sigPending[p]
        /\ stage'[p] = "noconfig" => ~adapters'[p] /\ ~acquired'[p]
        /\ mcpReady'[p] = "unreachable" => ~adapters'[p]]_vars

\* C16 (amended): a process without a platform token ends with a non-zero
\* code (or through a signal) without ever taking the lock or starting
\* an adapter; an unreachable gateway is not fatal: the startup goes on,
\* and the adapters are started only by a process that holds the lock and
\* has run the gateway test, whatever its result.
C16_OnlyMissingTokenFatal ==
    [][\A p \in Procs :
        /\ (stage[p] = "noconfig" /\ stage'[p] # "noconfig") =>
              /\ stage'[p] = "off"
              /\ lastExit'[p].code # 0 \/ sigPending[p]
        /\ stage'[p] = "noconfig" => ~adapters'[p] /\ ~acquired'[p]
        /\ (mcpReady[p] = "untested" /\ mcpReady'[p] = "unreachable") =>
              stage'[p] = "running"
        /\ (~adapters[p] /\ adapters'[p]) =>
              /\ stage[p] = "running" /\ acquired[p]
              /\ mcpReady[p] \in {"ready", "unreachable"}]_vars

\* C16 witness: a relay serves with its adapters started although its
\* startup test found the gateway unreachable, and another process
\* without a token has ended with code 1 without taking the lock.
C16_ServesWithoutGateway ==
    \E p, q \in Procs :
        /\ adapters[p] /\ mcpReady[p] = "unreachable"
        /\ stage[q] = "off"
        /\ lastExit[q] = [how |-> "exit", code |-> 1, held |-> FALSE]

\* C22: a step that removes the lock record is a step of a process that
\* has acquired the lock, and when the record names a live process it is
\* a step of that very process.
C22_OnlyOwnerRemovesLock ==
    [][(lockFile.exists /\ ~lockFile'.exists) =>
        \E p \in Procs :
            /\ stage'[p] # stage[p] \/ sigPending'[p] # sigPending[p]
            /\ acquired[p]
            /\ NamesLive(lockFile) => LockNames(lockFile, p)]_vars

(***************************************************************************)
(* Claims about turns and the session state, checked under SpecTurn.       *)
(***************************************************************************)

\* The turns that are inside callClaude: the subprocess runs, or the
\* session write callClaude awaits is under way.
InCallClaude == {t \in Turns : tpc[t] \in {"claude", "save"}}

\* The turns that ran to their reply with an invocation that exited 0,
\* reported a session id and returned the agent's output.
Reported == {t \in Turns : tpc[t] = "done" /\ marker[t] /\ raw[t] = "output"}

\* The session file holds the complete record with session id sid.
Persisted(sid) == sessionFile.k = "json" /\ sessionFile.v.t = "object"
                      /\ sessionFile.v.sid = sid

\* C1: turns are serialized; in no reachable state are two callClaude
\* invocations in progress at once.
C1_OneCallClaudeAtATime == Cardinality(InCallClaude) <= 1

\* C2: once two turns whose invocations both exited 0 and reported a
\* session id have completed (and no turn is under way), the persisted
\* record holds the id of the invocation that completed last.
C2_NoLostSessionUpdate ==
    ( /\ up
      /\ \A t \in Turns : tpc[t] \notin InFlight
      /\ Cardinality(Reported) >= 2
      /\ \A t \in Turns : marker[t] => t \in Reported
      /\ lastReported \in Reported )
    => Persisted(lastReported)

\* C7: every turn runs through to its reply under every combination of
\* component failures; processMessage never throws.
C7_TurnNeverThrows == \A t \in Turns : tpc[t] # "threw"

\* C8: for every state of the session file loadSession yields a session
\* record: the last-saved one, or a fresh one with sessionId = none.
C8_LoadedSessionIsRecord == up => session.t = "object"

\* C9: after a crash at any point of a saveSession call the session file
\* holds a complete record (or what it held before the relay ever wrote),
\* never a partial or empty file.
C9_NoPartialFileAfterCrash ==
    ~up => \/ sessionFile \in InitialSessionFiles
           \/ sessionFile.k = "json" /\ sessionFile.v.t = "object"

\* C10: when callClaude returns the output of an invocation that exited 0
\* with a session-id marker, the persisted record holds that id.
C10_PersistedAtReturn ==
    [][\A t \in Turns :
        (tpc[t] = "save" /\ marker[t] /\ tpc'[t] = "intents" /\ raw'[t] = "output")
            => Persisted(t)]_vars

\* C11: callClaude never throws: for every outcome of the subprocess the
\* turn goes on with a reply text, which is the output, the error text
\* made of stderr or of the exit code, or the fixed error text.
C11_CallClaudeAlwaysReturnsText ==
    \A t \in Turns :
        /\ tpc[t] # "threw"
        /\ tpc[t] \in {"intents", "done"}
              => raw[t] \in {"output", "exitStderr", "exitCode", "spawnError"}

\* C18: no turn stays in flight forever: every turn that entered
\* processMessage eventually leaves it, even when its subprocess never
\* exits (checked under SpecTurnLive).
C18_NoTurnHangs ==
    \A t \in Turns : (tpc[t] = "ctx") ~> (tpc[t] \notin InFlight)

\* C19: a callClaude that returns without having started saveSession (a
\* non-zero exit, whatever its output holds, a spawn that failed, an exit
\* 0 without a marker) leaves the in-memory session and the session file
\* as they were; while the relay runs the in-memory session changes only
\* to the id an invocation that exited 0 reports, and the file is written
\* only by the saveSession of such an invocation.
C19_WrittenOnlyOnReportedId ==
    [][(up /\ up') =>
        /\ \A t \in Turns :
              (tpc[t] \in {"ctx", "claude"} /\ tpc'[t] \in {"intents", "threw"})
                  => session' = session /\ sessionFile' = sessionFile
        /\ session' # session =>
              \E t \in Turns :
                  /\ tpc[t] = "claude" /\ tpc'[t] = "save"
                  /\ marker'[t] /\ session' = JsObject(t, t)
        /\ sessionFile' # sessionFile =>
              \E t \in Turns :
                  marker[t] /\ wstage[t] \in {"pending", "opened"}
                            /\ wstage'[t] # wstage[t]]_vars

\* C19 witness: an invocation exited non-zero with a marker line in its
\* output and callClaude returned the error text, while the session and
\* its file hold the record of an earlier run.
C19_FailedInvocationReturned ==
    \E t \in Turns :
        /\ tpc[t] = "intents"
        /\ raw[t] = "exitStderr"
        /\ session = JsObject(PriorSid, 0)
        /\ sessionFile = JsonStringify(session)

\* C20: an invocation passes --resume with the id reported by the most
\* recent invocation of this run that completed with a session id, or
\* with the id loaded at startup if there was none; it passes no --resume
\* exactly when that id is none.
C20_ResumesLatestReportedId ==
    [][\A t \in Turns :
        (tpc[t] = "ctx" /\ tpc'[t] \in {"claude", "intents"})
            => resumeArg'[t] = latestId]_vars

\* The session id a session file holds (0: none).
FileSid(f) == IF f.k = "json" /\ f.v.t = "object" THEN f.v.sid ELSE 0

\* C25: whenever the relay runs with no invocation and no session write in
\* progress, the session id in memory is the one in the session file (or
\* both are none).
C25_MemoryMatchesFile ==
    ( /\ up
      /\ \A t \in Turns : tpc[t] \notin {"claude", "save"} /\ wstage[t] = "none" )
    => session.sid = FileSid(sessionFile)

\* C26: a callClaude whose invocation exited 0 with a session id and which
\* went on to persist it returns the agent's output, whatever becomes of
\* the write.
C26_ExitZeroYieldsOutput ==
    [][\A t \in Turns :
        (tpc[t] = "save" /\ tpc'[t] = "intents") => raw'[t] = "output"]_vars

(***************************************************************************)
(* Claims about the gateway connection, checked under SpecMcp.             *)
(***************************************************************************)

\* C5: however getMcpClient calls interleave, at most one connection
\* attempt is ever started, and every caller handed a connection is handed
\* the same one.
C5_SingleConnectionAttempt ==
    /\ Len(connState) <= 1
    /\ Cardinality(handedOut) <= 1
    /\ \A c \in Callers : holder[c] \in {0, 1}

\* C5 witness: a second caller was handed the client while the connect
\* started by the first caller is still in flight, and the first caller
\* still awaits it.
C5_SharedWhileConnecting ==
    \E c1, c2 \in Callers :
        /\ c1 # c2
        /\ connState = <<"connecting">>
        /\ cstate[c1] = "awaiting"
        /\ cstate[c2] = "has"
        /\ holder[c2] = 1

\* C23: a caller that was handed a client holds one whose connect() has
\* completed successfully.
C23_HandedOnlyConnected ==
    \A c \in Callers :
        cstate[c] \in {"has", "called"} => connState[holder[c]] = "connected"


(***************************************************************************)
(* Claims about processMemoryIntents (SpecIntents).                        *)
(***************************************************************************)
Seg(i) == Segments[parts[i]]

\* The segment is one whole directive of kind kw.
IsDirective(seg, kw) == MatchAt(seg, 1, kw).end = Len(seg)

IsPlainText(seg) == \A i \in DOMAIN seg : seg[i] \notin {"[", "]"}

\* The reply is text plus well-formed directives: no stray bracket.
WellFormedReply ==
    \A i \in DOMAIN parts :
        \/ IsPlainText(Seg(i))
        \/ \E kw \in {"R", "G", "D"} : IsDirective(Seg(i), kw)

Directives(kw) == {i \in DOMAIN parts : IsDirective(Seg(i), kw)}

DeadlineGoals == {i \in Directives("G") : MatchAt(Seg(i), 1, "G").deadline}

CallsOf(ops) == {i \in DOMAIN calls : calls[i].op \in ops}

Contains(s, sub) == IndexFrom(s, sub, 1) # 0

\* The returned text holds none of the reply's directives.
Stripped ==
    \A i \in DOMAIN parts :
        (\E kw \in {"R", "G", "D"} : IsDirective(Seg(i), kw))
            => ~Contains(intentReply, Seg(i))

\* C6 (as stated): for a reply of text and well-formed directives, and a
\* gateway client that is always obtained, the returned text holds none of
\* the directives and the number of gateway calls issued equals the number
\* of directives.
C6_OneCallPerDirective ==
    (ipc = "returned" /\ WellFormedReply /\ ~rejected)
        => /\ Stripped
           /\ Len(calls) = Cardinality(Directives("R")) + Cardinality(Directives("G"))
                           + Cardinality(Directives("D"))

\* C6 (amended): for a reply of text and well-formed directives, the
\* returned text holds none of the directives; every REMEMBER and GOAL
\* causes at most one create call of its kind and every DONE at most one
\* query, exactly one when the gateway client is obtained; an update is
\* issued only right after a query that succeeded, at most one per query.
C6_StrippedAndCallsPerKind ==
    (ipc = "returned" /\ WellFormedReply)
        => /\ Stripped
           /\ Cardinality(CallsOf({"createKnow"})) <= Cardinality(Directives("R"))
           /\ Cardinality(CallsOf({"createAction", "createActionDeadline"}))
                  <= Cardinality(Directives("G"))
           /\ Cardinality(CallsOf({"createActionDeadline"})) <= Cardinality(DeadlineGoals)
           /\ Cardinality(CallsOf({"query"})) <= Cardinality(Directives("D"))
           /\ \A i \in CallsOf({"update"}) : i > 1 /\ calls[i - 1] = QueryCall("item")
           /\ ~rejected =>
                 /\ Cardinality(CallsOf({"createKnow"})) = Cardinality(Directives("R"))
                 /\ Cardinality(CallsOf({"createAction", "createActionDeadline"}))
                        = Cardinality(Directives("G"))
                 /\ Cardinality(CallsOf({"createActionDeadline"}))
                        = Cardinality(DeadlineGoals)
                 /\ Cardinality(CallsOf({"query"})) = Cardinality(Directives("D"))

\* A reply with text, a REMEMBER and a DONE whose query found an item has
\* been processed: three gateway calls for two directives.
C6_DoneFoundAmongDirectives ==
    /\ ipc = "returned"
    /\ WellFormedReply
    /\ ~rejected
    /\ Directives("R") # {}
    /\ Directives("D") # {}
    /\ CallsOf({"update"}) # {}
    /\ intentReply # <<>>

Dispatches(kw) == {i \in DOMAIN dispatched : dispatched[i] = kw}

\* C12: a ledger_query that returned no item, or a malformed result, is
\* never followed by an update; the DONE directive is removed from the
\* reply all the same and processMemoryIntents returns, having handled
\* every DONE directive.
C12_NoUpdateWithoutItem ==
    /\ \A i \in DOMAIN calls :
          (calls[i].op = "query" /\ calls[i].res \in {"none", "malformed"})
              => (i = Len(calls) \/ calls[i + 1].op # "update")
    /\ (ipc = "returned" /\ WellFormedReply) =>
          /\ \A i \in Directives("D") : ~Contains(intentReply, Seg(i))
          /\ Cardinality(Dispatches("D")) = Cardinality(Directives("D"))

\* C12 witness: a reply with text and two DONE directives was processed;
\* one query found nothing, the other gave a malformed result.
C12_DoneWithoutItemReturned ==
    /\ ipc = "returned"
    /\ WellFormedReply
    /\ \E i \in DOMAIN calls : calls[i].res = "none"
    /\ \E i \in DOMAIN calls : calls[i].res = "malformed"
    /\ CallsOf({"update"}) = {}
    /\ intentReply # <<>>

\* C13: the text processMemoryIntents returns holds no directive that a
\* second pass would recognize: the second pass returns the same text and
\* has nothing to dispatch.
C13_SecondPassIsNoOp ==
    ipc = "returned" =>
        /\ AllMatches(intentReply) = <<>>
        /\ ProcessedText(intentReply) = intentReply

\* C14: when a gateway call of a reply has failed (getMcpClient rejected
\* or callTool threw), processMemoryIntents still returns, every directive
\* of the reply was dispatched and none of them is left in the text.
C14_FailureIsolation ==
    ( /\ ipc = "returned"
      /\ WellFormedReply
      /\ rejected \/ \E i \in DOMAIN calls : ~calls[i].ok )
    => /\ Stripped
       /\ \A kw \in {"R", "G", "D"} :
             Cardinality(Dispatches(kw)) = Cardinality(Directives(kw))

\* C14 witness: the first gateway call of a reply failed, a later one
\* succeeded, and the function returned.
C14_LaterCallAfterFailure ==
    /\ ipc = "returned"
    /\ WellFormedReply
    /\ Len(calls) >= 2
    /\ ~calls[1].ok
    /\ calls[Len(calls)].ok
    /\ Dispatches("R") # {}

\* The place of a gateway operation in the order of kinds.
KindRank(op) ==
    CASE op = "createKnow" -> 1
      [] op \in {"createAction", "createActionDeadline"} -> 2
      [] OTHER -> 3

\* C17: the gateway calls of one reply are issued in kind order: every
\* create for a REMEMBER precedes every create for a GOAL, which precedes
\* every query or update for a DONE, wherever the directives stand in the
\* text; the directives are handed over in that order, one per step.
C17_CallsInKindOrder ==
    /\ \A i, j \in DOMAIN calls :
          i < j => KindRank(calls[i].op) <= KindRank(calls[j].op)
    /\ \A i, j \in DOMAIN dispatched :
          i < j => ~(dispatched[i] = "D" /\ dispatched[j] \in {"R", "G"})
                   /\ ~(dispatched[i] = "G" /\ dispatched[j] = "R")

\* C17 witness: in the text a DONE stands before a GOAL, which stands
\* before a REMEMBER; all three were dispatched with a client at hand.
C17_ReverseTextOrderDispatched ==
    /\ ipc = "returned"
    /\ Len(parts) = 3
    /\ IsDirective(Seg(1), "D")
    /\ IsDirective(Seg(2), "G")
    /\ IsDirective(Seg(3), "R")
    /\ ~rejected
    /\ Len(calls) >= 3

\* C21: whenever the agent's output holds something other than
\* whitespace, the text processMemoryIntents returns, which processMessage
\* hands to the adapter, is not the empty text.
C21_ReplyNeverEmpty ==
    (ipc = "returned" /\ \E i \in DOMAIN response : ~IsSpace(response[i]))
        => intentReply # <<>>

\* C24: a turn whose invocation failed (callClaude returned an error text)
\* issues no create and no update call to the gateway.
C24_FailedTurnNoIntents ==
    rawKind # "output" => CallsOf({"createKnow", "createAction", "update"}) = {}

====
